---- MODULE Spec2Model ----
(***************************************************************************)
(* A model of SimCLR_LOCAL_1051.py: the SimCLR LightningModule (its        *)
(* constructor, configure_optimizers, the training / validation steps and  *)
(* the epoch-end aggregation), the learning-rate schedule it installs, and *)
(* SyncFunction, the all-gather / all-reduce autograd function used by     *)
(* nt_xent_loss in distributed runs.                                       *)
(*                                                                         *)
(* Number conventions.  Python ints are unbounded and are modelled by      *)
(* TLA+ integers.  Temperatures are held in tenths (0.5 is 5).  A          *)
(* learning-rate factor f in [0, 1] is held as the integer floor(f*Scale). *)
(* A mean sum/len is held as the pair <<sum, len>>.                        *)
(***************************************************************************)
EXTENDS Integers, Sequences, FiniteSets, TLC

VARIABLES
    st,            \* life cycle of the SimCLR object
    err,           \* the exception that ended the last call, or "none"
    ctor_args,     \* the arguments SimCLR.__init__ was called with
    obj,           \* the fields of self set by __init__
    train_loss,    \* self.train_loss
    logs,          \* last value given to self.log, per metric name
    temps_used,    \* temperatures nt_xent_loss has been called with
    optim,         \* what configure_optimizers returned
    global_step,   \* LambdaLR.last_epoch: scheduler steps taken
    factor,        \* the multiplier LambdaLR last computed
    last_op,       \* the handler that ran last
    epoch_losses,  \* driver side: losses returned by training_step this epoch
    closed_epoch,  \* driver side: the losses of the epoch closed last
    W,             \* torch.distributed.get_world_size()
    B,             \* rows of every local batch (tensor.shape[0])
    views,         \* SyncFunction applications per step (2 in nt_xent_loss)
    dist_init,     \* torch.distributed.is_available() and is_initialized()
    pc,            \* per rank: where the worker is in its step
    node,          \* per rank: the SyncFunction application being run
    out,           \* per rank: the local batches handed to forward
    out_dist,      \* per rank: what forward returned, per application
    ctx,           \* per rank: ctx.batch_size, per application
    given,         \* per rank: the grad_output autograd passed to backward
    grad_output,   \* per rank: the caller's grad_output tensor, as it is now
    grad_input,    \* per rank: backward's grad_input, per application
    grad_ret,      \* per rank: what backward returned, per application
    coll,          \* the collectives in flight: what each rank contributed
    issued         \* per rank: the collectives the worker has called

lifeVars == <<st, err, ctor_args, obj, train_loss, logs, temps_used, optim,
              global_step, factor, last_op, epoch_losses, closed_epoch>>

distVars == <<W, B, views, dist_init, pc, node, out, out_dist, ctx, given,
              grad_output, grad_input, grad_ret, coll, issued>>

vars == <<lifeVars, distVars>>

---------------------------------------------------------------------------
(* Bounds of the model *)

MaxSamples == 4
MaxBatch   == 2
MaxGpus    == 2
MaxNodes   == 2
MaxEpochs  == 2
MaxStep    == 9
MaxLosses  == 2
MaxLoss    == 2
MaxWorld   == 3
MaxRows    == 6
Scale      == 100

---------------------------------------------------------------------------
(* Program constants *)

\* shared_step passes the literal 0.5 to nt_xent_loss (in tenths)
FixedTemperature == 5

Archs      == {"resnet18", "resnet50"}
Optimizers == {"lars", "adam", "adamw"}

\* named_parameters() of the layers __init__ and Projection create
ParamNames ==
    { "features.weight", "features.bias",
      "batch_norm1d.weight", "batch_norm1d.bias",
      "projection.model.0.weight", "projection.model.0.bias",
      "projection.model.1.weight", "projection.model.1.bias",
      "projection.model.3.weight" }

---------------------------------------------------------------------------
(* Pure helpers *)

RECURSIVE SumSeq(_)
SumSeq(s) == IF s = <<>> THEN 0 ELSE Head(s) + SumSeq(Tail(s))

Max(a, b) == IF a >= b THEN a ELSE b

\* Python's a // b (floor division); b # 0
FloorDiv(a, b) == IF b > 0 THEN a \div b ELSE (-a) \div (-b)

\* global_batch_size of __init__
GlobalBatchSize(a) ==
    IF a.gpus > 0 THEN a.num_nodes * a.gpus * a.batch_size ELSE a.batch_size

\* variant: the batches of an epoch counted with the last, partial one
TrainItersPerEpochRoundedUp(a) ==
    -FloorDiv(-a.num_samples, GlobalBatchSize(a))

\* self.train_iters_per_epoch of __init__
TrainItersPerEpoch(a) == FloorDiv(a.num_samples, GlobalBatchSize(a))

\* variant: the warmup stretched over max_epochs
WarmupStepsOverAllEpochs(o) == o.train_iters_per_epoch * o.max_epochs

\* variant: total_steps counting the decay epochs only
TotalStepsAfterWarmup(o) ==
    o.train_iters_per_epoch * (o.max_epochs - o.warmup_epochs)

\* warmup_steps and total_steps of configure_optimizers
WarmupSteps(o) == o.train_iters_per_epoch * o.warmup_epochs

TotalSteps(o) == o.train_iters_per_epoch * o.max_epochs

\* cos(pi * n / d) * Scale for n >= 0, d >= 1: the angle is reduced to
\* [0, pi] by the period and the symmetry of the cosine, then to [0, pi/2]
\* by cos(pi - x) = -cos(x), where the rational approximation
\* cos(pi*t) ~ (1 - 4t^2) / (1 + t^2) is used (exact at t = 0, 1/3, 1/2,
\* strictly decreasing in between).
CosQuarter(m, d) == (Scale * (d * d - 4 * m * m)) \div (d * d + m * m)

CosPi(n, d) ==
    LET r == n % (2 * d)
        m == IF r > d THEN 2 * d - r ELSE r
    IN  IF 2 * m <= d THEN CosQuarter(m, d) ELSE -CosQuarter(d - m, d)

\* the function linear_warmup_decay(warmup_steps, total_steps, cosine=True)
\* returns, applied to step
LinearWarmupDecay(warmup_steps, total_steps, step) ==
    IF step < warmup_steps
    THEN (step * Scale) \div Max(1, warmup_steps)
    ELSE (Scale + CosPi(step - warmup_steps,
                        Max(1, total_steps - warmup_steps))) \div 2

---------------------------------------------------------------------------
(* Values of unset state *)

NoArgs == [num_samples |-> 0, batch_size |-> 0, gpus |-> 0, num_nodes |-> 0,
           arch |-> "unset", warmup_epochs |-> 0, max_epochs |-> 0,
           temperature |-> 0, optimizer |-> "unset",
           exclude_bn_bias |-> FALSE, weight_decay |-> 0]

NoObj == [gpus |-> 0, num_nodes |-> 0, arch |-> "unset", num_samples |-> 0,
          batch_size |-> 0, optim |-> "unset", exclude_bn_bias |-> FALSE,
          weight_decay |-> 0, temperature |-> 0, warmup_epochs |-> 0,
          max_epochs |-> 0, train_iters_per_epoch |-> 0]

NoOptim == [optimizer |-> "unset", groups |-> {}, warmup_steps |-> 0,
            total_steps |-> 0]

NoLogs == [train_loss |-> <<>>, val_loss |-> <<>>, avg_train_loss |-> <<>>]

InitLife ==
    /\ st = "new"
    /\ err = "none"
    /\ ctor_args = NoArgs
    /\ obj = NoObj
    /\ train_loss = <<>>
    /\ logs = NoLogs
    /\ temps_used = {}
    /\ optim = NoOptim
    /\ global_step = 0
    /\ factor = 0
    /\ last_op = "none"
    /\ epoch_losses = <<>>
    /\ closed_epoch = <<>>

---------------------------------------------------------------------------
(* Arguments the constructor is called with *)

\* life-cycle runs: every identifier, temperature and flag; one data size
LifeArgs ==
    [num_samples : {MaxSamples}, batch_size : {1}, gpus : {1}, num_nodes : {1},
     arch : Archs \cup {"vgg16"},
     warmup_epochs : {1}, max_epochs : {MaxEpochs},
     temperature : {0, 1, FixedTemperature},
     optimizer : Optimizers \cup {"sgd"},
     exclude_bn_bias : BOOLEAN, weight_decay : {1}]

\* schedule runs: every data size and epoch count; one valid identifier
SchedArgs ==
    [num_samples : 0..MaxSamples, batch_size : 0..MaxBatch,
     gpus : 0..MaxGpus, num_nodes : 1..MaxNodes,
     arch : {"resnet18"},
     warmup_epochs : 0..MaxEpochs, max_epochs : 0..MaxEpochs,
     temperature : {1},
     optimizer : {"adam"},
     exclude_bn_bias : {FALSE}, weight_decay : {1}]

---------------------------------------------------------------------------
(* SimCLR.__init__ *)

\* init_model binds backbone only for the two known architectures
InitModelBinds(arch) == arch \in Archs

NewObj(a) ==
    [gpus |-> a.gpus, num_nodes |-> a.num_nodes, arch |-> a.arch,
     num_samples |-> a.num_samples, batch_size |-> a.batch_size,
     optim |-> a.optimizer, exclude_bn_bias |-> a.exclude_bn_bias,
     weight_decay |-> a.weight_decay, temperature |-> a.temperature,
     warmup_epochs |-> a.warmup_epochs, max_epochs |-> a.max_epochs,
     train_iters_per_epoch |-> TrainItersPerEpoch(a)]

ConstructWith(a) ==
    /\ st = "new"
    /\ ctor_args' = a
    /\ last_op' = "__init__"
    /\ IF ~InitModelBinds(a.arch)
       THEN \* init_model: return backbone, backbone never assigned
            /\ st' = "ctor_error"
            /\ err' = "UnboundLocalError"
            /\ UNCHANGED obj
       ELSE IF GlobalBatchSize(a) = 0
       THEN \* num_samples // 0
            /\ st' = "ctor_error"
            /\ err' = "ZeroDivisionError"
            /\ UNCHANGED obj
       ELSE /\ st' = "constructed"
            /\ err' = "none"
            /\ obj' = NewObj(a)
    /\ train_loss' = <<>>
    /\ UNCHANGED <<logs, temps_used, optim, global_step, factor,
                   epoch_losses, closed_epoch>>
    /\ UNCHANGED distVars

Construct == \E a \in LifeArgs : ConstructWith(a)

ConstructSched == \E a \in SchedArgs : ConstructWith(a)

---------------------------------------------------------------------------
(* SimCLR.configure_optimizers *)

\* SimCLR defines no exclude_from_wt_decay and inherits none
HasExcludeFromWtDecay == FALSE

\* the branch of the optimizer if / elif chain that binds optimizer
OptimizerBinds(name) == name \in Optimizers

\* self.parameters() as one group, decayed by the optimizer's weight_decay
AllParamsGroup(o) == {[params |-> ParamNames, weight_decay |-> o.weight_decay]}

ConfigureOptimizers ==
    /\ st = "constructed"
    /\ last_op' = "configure_optimizers"
    /\ IF obj.exclude_bn_bias /\ ~HasExcludeFromWtDecay
       THEN \* self.exclude_from_wt_decay: no such attribute
            /\ st' = "config_error"
            /\ err' = "AttributeError"
            /\ UNCHANGED <<optim, global_step, factor>>
       ELSE IF ~OptimizerBinds(obj.optim)
       THEN \* LambdaLR(optimizer, ...): optimizer never assigned
            /\ st' = "config_error"
            /\ err' = "UnboundLocalError"
            /\ UNCHANGED <<optim, global_step, factor>>
       ELSE /\ st' = "configured"
            /\ err' = "none"
            /\ optim' = [optimizer |-> obj.optim,
                         groups |-> AllParamsGroup(obj),
                         warmup_steps |-> WarmupSteps(obj),
                         total_steps |-> TotalSteps(obj)]
            \* LambdaLR evaluates the lambda at step 0 when it is built
            /\ global_step' = 0
            /\ factor' = LinearWarmupDecay(WarmupSteps(obj), TotalSteps(obj), 0)
    /\ UNCHANGED <<ctor_args, obj, train_loss, logs, temps_used,
                   epoch_losses, closed_epoch>>
    /\ UNCHANGED distVars

\* "interval": "step", "frequency": 1: one scheduler step per optimizer step
SchedulerStep ==
    /\ st = "configured"
    /\ global_step < MaxStep
    /\ global_step' = global_step + 1
    /\ factor' = LinearWarmupDecay(optim.warmup_steps, optim.total_steps,
                                   global_step + 1)
    /\ last_op' = "scheduler_step"
    /\ UNCHANGED <<st, err, ctor_args, obj, train_loss, logs, temps_used,
                   optim, epoch_losses, closed_epoch>>
    /\ UNCHANGED distVars

---------------------------------------------------------------------------
(* shared_step, training_step, validation_step, on_train_epoch_end *)

\* the temperature shared_step hands to nt_xent_loss
SharedStepTemperature(o) == FixedTemperature

\* self.train_loss after training_step
TrainLossAfterTraining(tl, loss) == Append(tl, loss)

\* variant: validation_step accumulating like training_step
TrainLossAfterValidationAppends(tl, loss) == Append(tl, loss)

\* self.train_loss after validation_step
TrainLossAfterValidation(tl, loss) == tl

\* self.train_loss after on_train_epoch_end has logged
TrainLossAfterEpochEnd(tl) == <<>>

\* sum(self.train_loss) / len(self.train_loss), len # 0
AvgTrainLoss(tl) == <<SumSeq(tl), Len(tl)>>

TrainingStep ==
    /\ st = "configured"
    /\ Len(train_loss) < MaxLosses
    /\ \E loss \in 1..MaxLoss :
          /\ train_loss' = TrainLossAfterTraining(train_loss, loss)
          /\ logs' = [logs EXCEPT !.train_loss = <<loss>>]
          /\ epoch_losses' = Append(epoch_losses, loss)
    /\ temps_used' = temps_used \cup {SharedStepTemperature(obj)}
    /\ last_op' = "training_step"
    /\ UNCHANGED <<st, err, ctor_args, obj, optim, global_step, factor,
                   closed_epoch>>
    /\ UNCHANGED distVars

ValidationStep ==
    /\ st \in {"constructed", "configured"}
    /\ \E loss \in 1..MaxLoss :
          /\ train_loss' = TrainLossAfterValidation(train_loss, loss)
          /\ logs' = [logs EXCEPT !.val_loss = <<loss>>]
    /\ temps_used' = temps_used \cup {SharedStepTemperature(obj)}
    /\ last_op' = "validation_step"
    /\ UNCHANGED <<st, err, ctor_args, obj, optim, global_step, factor,
                   epoch_losses, closed_epoch>>
    /\ UNCHANGED distVars

OnTrainEpochEnd ==
    /\ st = "configured"
    /\ last_op' = "on_train_epoch_end"
    /\ closed_epoch' = epoch_losses
    /\ epoch_losses' = <<>>
    /\ IF Len(train_loss) = 0
       THEN \* sum([]) / 0
            /\ st' = "run_error"
            /\ err' = "ZeroDivisionError"
            /\ UNCHANGED <<train_loss, logs>>
       ELSE /\ logs' = [logs EXCEPT !.avg_train_loss = AvgTrainLoss(train_loss)]
            /\ train_loss' = TrainLossAfterEpochEnd(train_loss)
            /\ UNCHANGED <<st, err>>
    /\ UNCHANGED <<ctor_args, obj, temps_used, optim, global_step, factor>>
    /\ UNCHANGED distVars

---------------------------------------------------------------------------
(* Tensors.  A tensor is the sequence of its rows; a row is one number. *)

Ones(n) == [i \in 1..n |-> 1]

OneHot(n, k) == [i \in 1..n |-> IF i = k THEN 1 ELSE 0]

\* the tensors of n rows the callers hand over
Tensors(n) == {Ones(n)} \cup {OneHot(n, k) : k \in 1..n}

Min(a, b) == IF a <= b THEN a ELSE b

\* Python's s[from:to] for 0 <= from <= to
PySlice(s, from, to) == SubSeq(s, Min(from, Len(s)) + 1, Min(to, Len(s)))

\* torch.cat(list, 0)
RECURSIVE Cat(_)
Cat(list) == IF list = <<>> THEN <<>> ELSE Head(list) \o Cat(Tail(list))

Ranks == 0..(W - 1)

AllRanks == 0..(MaxWorld - 1)

---------------------------------------------------------------------------
(* torch.distributed collectives.  The c-th collective call of every rank  *)
(* is one collective; a call returns when all W ranks have made it.        *)

NoColl == [kind |-> [r \in AllRanks |-> "none"],
           data |-> [r \in AllRanks |-> <<>>],
           left |-> {}]

NumColl == 2 * views

\* rank r enters collective c of the given kind with tensor t
Join(c, r, kind, t) ==
    [coll EXCEPT ![c].kind[r] = kind, ![c].data[r] = t]

\* a blocking collective returns once every rank has entered it
AllJoined(c, kind) == \A q \in Ranks : coll[c].kind[q] = kind

\* rank r leaves collective c; the last one out frees it
Leave(c, r) ==
    IF coll[c].left \cup {r} = Ranks
    THEN [coll EXCEPT ![c] = NoColl]
    ELSE [coll EXCEPT ![c].left = @ \cup {r}]

\* all_gather: slot i of the output list is the tensor of rank i
AllGather(c) == [i \in 1..W |-> coll[c].data[i - 1]]

\* all_reduce(SUM): the element-wise sum of the tensors of all ranks
RECURSIVE SumOver(_, _, _)
SumOver(c, j, q) ==
    IF q < 0 THEN 0 ELSE coll[c].data[q][j] + SumOver(c, j, q - 1)

AllReduceSum(c, n) == [j \in 1..n |-> SumOver(c, j, W - 1)]

---------------------------------------------------------------------------
(* SyncFunction.forward *)

\* the collective the worker calls next
NextColl(r) == Len(issued[r]) + 1

\* variant: the list of zeros with only the slot of this rank filled
ForwardResultOwnSlotOnly(r, c) ==
    Cat([i \in 1..W |-> IF i - 1 = r THEN coll[c].data[r]
                        ELSE [j \in 1..Len(coll[c].data[r]) |-> 0]])

\* gathered_tensor as forward returns it
ForwardResult(r, c) == Cat(AllGather(c))

\* ctx.batch_size = tensor.shape[0]; the list of zeros; all_gather is called
FwdJoin(r) ==
    /\ pc[r] = "fwd"
    /\ ctx' = [ctx EXCEPT ![r][node[r]] = Len(out[r][node[r]])]
    /\ coll' = Join(NextColl(r), r, "all_gather", out[r][node[r]])
    /\ issued' = [issued EXCEPT ![r] = Append(@, "all_gather")]
    /\ pc' = [pc EXCEPT ![r] = "fwd_wait"]
    /\ UNCHANGED <<W, B, views, dist_init, node, out, out_dist, given,
                   grad_output, grad_input, grad_ret>>
    /\ UNCHANGED lifeVars

\* all_gather returns; torch.cat; forward returns
FwdComplete(r) ==
    /\ pc[r] = "fwd_wait"
    /\ AllJoined(Len(issued[r]), "all_gather")
    /\ out_dist' = [out_dist EXCEPT ![r][node[r]] =
                        ForwardResult(r, Len(issued[r]))]
    /\ coll' = Leave(Len(issued[r]), r)
    /\ IF node[r] < views
       THEN /\ node' = [node EXCEPT ![r] = @ + 1]
            /\ pc' = [pc EXCEPT ![r] = "fwd"]
       ELSE /\ pc' = [pc EXCEPT ![r] = "loss"]
            /\ UNCHANGED node
    /\ UNCHANGED <<W, B, views, dist_init, out, ctx, given, grad_output,
                   grad_input, grad_ret, issued>>
    /\ UNCHANGED lifeVars

---------------------------------------------------------------------------
(* SyncFunction.backward *)

\* variant: grad_input = grad_output, the same storage
CloneShared(t) == [data |-> t, shares |-> TRUE]

\* grad_output.clone(): a new tensor that shares no storage with grad_output
Clone(t) == [data |-> t, shares |-> FALSE]

NoTensor == [data |-> <<>>, shares |-> FALSE]

\* variant: ranks counted from 1
IdxFromNextRank(r, b) == (r + 1) * b

\* idx_from and idx_to for torch.distributed.get_rank() = r
IdxFrom(r, b) == r * b

IdxTo(r, b) == (r + 1) * b

\* grad_input = grad_output.clone(); all_reduce is called
BwdJoin(r) ==
    /\ pc[r] = "bwd"
    /\ LET cloned == Clone(grad_output[r][node[r]])
       IN  /\ grad_input' = [grad_input EXCEPT ![r][node[r]] = cloned]
           /\ coll' = Join(NextColl(r), r, "all_reduce", cloned.data)
    /\ issued' = [issued EXCEPT ![r] = Append(@, "all_reduce")]
    /\ pc' = [pc EXCEPT ![r] = "bwd_wait"]
    /\ UNCHANGED <<W, B, views, dist_init, node, out, out_dist, ctx, given,
                   grad_output, grad_ret>>
    /\ UNCHANGED lifeVars

\* all_reduce returns, having written the sum into grad_input (and into
\* whatever shares its storage); the slice of this rank is returned
BwdComplete(r) ==
    /\ pc[r] = "bwd_wait"
    /\ AllJoined(Len(issued[r]), "all_reduce")
    /\ LET c == Len(issued[r])
           k == node[r]
           reduced == AllReduceSum(c, Len(grad_input[r][k].data))
       IN  /\ grad_input' = [grad_input EXCEPT ![r][k].data = reduced]
           /\ grad_output' =
                 IF grad_input[r][k].shares
                 THEN [grad_output EXCEPT ![r][k] = reduced]
                 ELSE grad_output
           /\ grad_ret' = [grad_ret EXCEPT ![r][k] =
                 PySlice(reduced, IdxFrom(r, ctx[r][k]), IdxTo(r, ctx[r][k]))]
           /\ coll' = Leave(c, r)
           /\ IF k > 1
              THEN /\ node' = [node EXCEPT ![r] = k - 1]
                   /\ pc' = [pc EXCEPT ![r] = "bwd"]
                   /\ UNCHANGED <<out, out_dist>>
              ELSE \* the step is over: the forward tensors are released
                   /\ pc' = [pc EXCEPT ![r] = "done"]
                   /\ out' = [out EXCEPT ![r] = [k2 \in 1..views |-> <<>>]]
                   /\ out_dist' = [out_dist EXCEPT ![r] =
                                       [k2 \in 1..views |-> <<>>]]
                   /\ UNCHANGED node
    /\ UNCHANGED <<W, B, views, dist_init, ctx, given, issued>>
    /\ UNCHANGED lifeVars

---------------------------------------------------------------------------
(* A caller that applies SyncFunction to one tensor and back-propagates *)

\* SyncFunction.apply(tensor)
Apply(r) ==
    /\ pc[r] = "idle"
    /\ \E t \in Tensors(B) : out' = [out EXCEPT ![r] = <<t>>]
    /\ node' = [node EXCEPT ![r] = 1]
    /\ pc' = [pc EXCEPT ![r] = "fwd"]
    /\ UNCHANGED <<W, B, views, dist_init, out_dist, ctx, given, grad_output,
                   grad_input, grad_ret, coll, issued>>
    /\ UNCHANGED lifeVars

\* autograd calls backward(ctx, grad_output) with the gradient of the
\* caller's loss with respect to the gathered tensor
Backward(r) ==
    /\ pc[r] = "loss"
    /\ \E g \in Tensors(W * B) :
          /\ given' = [given EXCEPT ![r] = <<g>>]
          /\ grad_output' = [grad_output EXCEPT ![r] = <<g>>]
    /\ node' = [node EXCEPT ![r] = views]
    /\ pc' = [pc EXCEPT ![r] = "bwd"]
    /\ UNCHANGED <<W, B, views, dist_init, out, out_dist, ctx, grad_input,
                   grad_ret, coll, issued>>
    /\ UNCHANGED lifeVars

---------------------------------------------------------------------------
(* SimCLR.nt_xent_loss on every worker of a run *)

\* variant: rank 0 keeps its local batches
UsesSyncOffRankZero(r) == dist_init /\ r # 0

\* the branch nt_xent_loss takes on rank r
UsesSync(r) == dist_init

\* nt_xent_loss(out_1, out_2, temperature) is entered
NtXentLoss(r) ==
    /\ pc[r] = "idle"
    /\ \E t1 \in {Ones(B), OneHot(B, 1)}, t2 \in {Ones(B)} :
          /\ out' = [out EXCEPT ![r] = <<t1, t2>>]
          /\ IF UsesSync(r)
             THEN /\ pc' = [pc EXCEPT ![r] = "fwd"]
                  /\ UNCHANGED out_dist
             ELSE \* out_1_dist = out_1; out_2_dist = out_2
                  /\ pc' = [pc EXCEPT ![r] = "loss"]
                  /\ out_dist' = [out_dist EXCEPT ![r] = <<t1, t2>>]
    /\ node' = [node EXCEPT ![r] = 1]
    /\ UNCHANGED <<W, B, views, dist_init, ctx, given, grad_output,
                   grad_input, grad_ret, coll, issued>>
    /\ UNCHANGED lifeVars

\* the gradient of the loss with respect to out_dist: a tensor shaped like
\* out_dist that the forward values determine.  Its values are not
\* modelled; out_dist itself stands for it.
LossGradient(r) == out_dist[r]

\* the loss is computed from out and out_dist and back-propagated: the
\* SyncFunction applied last is differentiated first
LossBackward(r) ==
    /\ pc[r] = "loss"
    /\ IF UsesSync(r)
       THEN /\ given' = [given EXCEPT ![r] = LossGradient(r)]
            /\ grad_output' = [grad_output EXCEPT ![r] = LossGradient(r)]
            /\ node' = [node EXCEPT ![r] = views]
            /\ pc' = [pc EXCEPT ![r] = "bwd"]
            /\ UNCHANGED <<out, out_dist>>
       ELSE \* no SyncFunction in the graph: nothing to wait for
            /\ pc' = [pc EXCEPT ![r] = "done"]
            /\ out' = [out EXCEPT ![r] = [k \in 1..views |-> <<>>]]
            /\ out_dist' = [out_dist EXCEPT ![r] = [k \in 1..views |-> <<>>]]
            /\ UNCHANGED <<given, grad_output, node>>
    /\ UNCHANGED <<W, B, views, dist_init, ctx, grad_input, grad_ret, coll,
                   issued>>
    /\ UNCHANGED lifeVars

\* a worker that never enters the step (it got no batch, or it died)
Stall(r) ==
    /\ pc[r] = "idle"
    /\ pc' = [pc EXCEPT ![r] = "absent"]
    /\ UNCHANGED <<W, B, views, dist_init, node, out, out_dist, ctx, given,
                   grad_output, grad_input, grad_ret, coll, issued>>
    /\ UNCHANGED lifeVars

---------------------------------------------------------------------------
(* Initial states of the distributed runs *)

Workers(w, v) ==
    /\ W = w
    /\ views = v
    /\ pc = [r \in AllRanks |-> IF r < w THEN "idle" ELSE "unused"]
    /\ node = [r \in AllRanks |-> 1]
    /\ out = [r \in AllRanks |-> [k \in 1..v |-> <<>>]]
    /\ out_dist = [r \in AllRanks |-> [k \in 1..v |-> <<>>]]
    /\ ctx = [r \in AllRanks |-> [k \in 1..v |-> 0]]
    /\ given = [r \in AllRanks |-> [k \in 1..v |-> <<>>]]
    /\ grad_output = [r \in AllRanks |-> [k \in 1..v |-> <<>>]]
    /\ grad_input = [r \in AllRanks |-> [k \in 1..v |-> NoTensor]]
    /\ grad_ret = [r \in AllRanks |-> [k \in 1..v |-> <<>>]]
    /\ coll = [c \in 1..(2 * v) |-> NoColl]
    /\ issued = [r \in AllRanks |-> <<>>]

\* no distributed run: the state of the life-cycle specifications
NoDist == Workers(0, 1) /\ B = 0 /\ dist_init = FALSE

\* W workers of an initialized group, each applying SyncFunction once to
\* a local batch of B rows; the global batch has at most MaxRows rows
InitSync ==
    /\ InitLife
    /\ dist_init = TRUE
    /\ B \in 1..MaxRows
    /\ \E w \in 1..MaxWorld : w * B <= MaxRows /\ Workers(w, 1)

\* W workers of an initialized group, or one process without a group,
\* each running nt_xent_loss once
InitStep ==
    /\ InitLife
    /\ dist_init \in BOOLEAN
    /\ B \in 1..MaxRows
    /\ \E w \in 1..MaxWorld :
          /\ w * B <= MaxRows
          /\ dist_init \/ w = 1
          /\ Workers(w, 2)

---------------------------------------------------------------------------
(* Specifications *)

Init == InitLife /\ NoDist

Next ==
    \/ Construct
    \/ ConfigureOptimizers
    \/ TrainingStep
    \/ ValidationStep
    \/ OnTrainEpochEnd

Spec == Init /\ [][Next]_vars

NextSched ==
    \/ ConstructSched
    \/ ConfigureOptimizers
    \/ SchedulerStep

SpecSched == Init /\ [][NextSched]_vars

NextSync ==
    \E r \in AllRanks :
        \/ Apply(r)
        \/ FwdJoin(r)
        \/ FwdComplete(r)
        \/ Backward(r)
        \/ BwdJoin(r)
        \/ BwdComplete(r)

SpecSync == InitSync /\ [][NextSync]_vars

\* what worker r does of its own accord
WorkerStep(r) ==
    \/ NtXentLoss(r)
    \/ FwdJoin(r)
    \/ FwdComplete(r)
    \/ LossBackward(r)
    \/ BwdJoin(r)
    \/ BwdComplete(r)

NextStep == \E r \in AllRanks : WorkerStep(r) \/ Stall(r)

\* every worker is a process of its own: it takes its next step when it can
SpecStep ==
    InitStep /\ [][NextStep]_vars /\ \A r \in AllRanks : WF_vars(WorkerStep(r))

---------------------------------------------------------------------------
(* Claims about the life cycle (specification Spec) *)

ConstructorCalled == st # "new"

ConfigureCalled == st \in {"configured", "config_error", "run_error"}

\* C3: an optimizer outside {lars, adam, adamw} or an arch outside
\* {resnet18, resnet50} makes the constructor fail, so that no object
\* carrying such an identifier exists to reach configure_optimizers or a
\* training step.
C3_RejectedAtConstruction ==
    (ConstructorCalled /\ (ctor_args.optimizer \notin {"lars", "adam", "adamw"}
                           \/ ctor_args.arch \notin {"resnet18", "resnet50"}))
        => st = "ctor_error"

\* C4: a temperature <= 0 makes the constructor fail, and nt_xent_loss is
\* never called with a temperature <= 0.
C4_TemperatureRejected ==
    /\ (ConstructorCalled /\ ctor_args.temperature <= 0) => st = "ctor_error"
    /\ \A t \in temps_used : t > 0

\* the logged average equals the mean of the losses in s
LoggedMeanOf(s) ==
    /\ logs.avg_train_loss # <<>>
    /\ logs.avg_train_loss[2] = Len(s)
    /\ logs.avg_train_loss[1] * Len(s) = SumSeq(s) * logs.avg_train_loss[2]

\* C5 as stated: every on_train_epoch_end logs the mean of the losses the
\* training steps of the closed epoch returned, and leaves train_loss empty.
C5_EveryEpochEndLogsMean ==
    last_op = "on_train_epoch_end"
        => /\ err = "none"
           /\ LoggedMeanOf(closed_epoch)
           /\ train_loss = <<>>

\* C5 amended: an on_train_epoch_end that closes an epoch of N >= 1 training
\* steps logs the mean of exactly those N losses and leaves train_loss
\* empty; one that closes an epoch of no training step raises
\* ZeroDivisionError.
C5_EpochEndLogsMean ==
    last_op = "on_train_epoch_end"
        => IF Len(closed_epoch) >= 1
           THEN /\ err = "none"
                /\ st = "configured"
                /\ LoggedMeanOf(closed_epoch)
                /\ train_loss = <<>>
           ELSE /\ err = "ZeroDivisionError"
                /\ st = "run_error"
                /\ train_loss = <<>>

C5_Witness ==
    /\ last_op = "on_train_epoch_end"
    /\ closed_epoch = <<1, 2>>
    /\ logs.avg_train_loss = <<3, 2>>
    /\ logs.val_loss # <<>>
    /\ train_loss = <<>>

NormOrBiasParams ==
    { "features.bias", "batch_norm1d.weight", "batch_norm1d.bias",
      "projection.model.0.bias", "projection.model.1.weight",
      "projection.model.1.bias" }

\* C6: configure_optimizers with exclude_bn_bias set hands the optimizer
\* two groups that partition the named parameters, the normalization and
\* bias parameters in the group with weight decay 0.0 and the others in the
\* group with the configured weight decay; without the flag it hands over
\* one group of all parameters with the configured weight decay.
C6_ParameterGroups ==
    (ConfigureCalled /\ obj.optim \in {"lars", "adam", "adamw"})
        => /\ st # "config_error"
           /\ IF obj.exclude_bn_bias
              THEN optim.groups =
                     { [params |-> NormOrBiasParams, weight_decay |-> 0],
                       [params |-> ParamNames \ NormOrBiasParams,
                        weight_decay |-> obj.weight_decay] }
              ELSE optim.groups =
                     { [params |-> ParamNames,
                        weight_decay |-> obj.weight_decay] }

---------------------------------------------------------------------------
(* Claims about the schedule (specification SpecSched) *)

\* the values the claims derive from the constructor's arguments
ClaimedGlobalBatch ==
    IF ctor_args.gpus > 0
    THEN ctor_args.num_nodes * ctor_args.gpus * ctor_args.batch_size
    ELSE ctor_args.batch_size

ClaimedIters ==
    IF ClaimedGlobalBatch > 0
    THEN ctor_args.num_samples \div ClaimedGlobalBatch
    ELSE (-ctor_args.num_samples) \div (-ClaimedGlobalBatch)

ClaimedWarmup == ClaimedIters * ctor_args.warmup_epochs

ClaimedTotal == ClaimedIters * ctor_args.max_epochs

\* C7 as stated: the factor is 0 at step 0, exactly 1.0 at step =
\* warmup_steps, and never negative.
C7_FactorAtZeroIsZero ==
    st = "configured"
        => /\ global_step = 0 => factor = 0
           /\ global_step = ClaimedWarmup => factor = Scale
           /\ factor >= 0

\* C7 amended: the factor is 0 at step 0 when warmup_steps > 0 (when
\* warmup_steps = 0, step 0 is the warmup boundary and the factor is 1.0),
\* exactly 1.0 at step = warmup_steps, and never negative.
C7_FactorBoundary ==
    st = "configured"
        => /\ (global_step = 0 /\ ClaimedWarmup > 0) => factor = 0
           /\ global_step = ClaimedWarmup => factor = Scale
           /\ factor >= 0

C7_Witness ==
    /\ st = "configured"
    /\ ClaimedWarmup > 0
    /\ global_step = ClaimedWarmup
    /\ factor = Scale

StepTaken ==
    st = "configured" /\ st' = "configured" /\ global_step' = global_step + 1

\* C8 as stated: from one step to the next the factor never decreases while
\* step < warmup_steps and never increases once step >= warmup_steps.
C8_MonotoneForever ==
    [][StepTaken =>
          /\ global_step < ClaimedWarmup => factor' >= factor
          /\ global_step >= ClaimedWarmup => factor' <= factor]_vars

\* C8 amended: from one step to the next the factor never decreases while
\* step < warmup_steps and never increases while warmup_steps <= step <
\* total_steps; past total_steps the cosine rises again.
C8_MonotoneUntilTotal ==
    [][StepTaken =>
          /\ global_step < ClaimedWarmup => factor' >= factor
          /\ (global_step >= ClaimedWarmup /\ global_step < ClaimedTotal)
                => factor' <= factor]_vars

C8_Witness ==
    /\ st = "configured"
    /\ ClaimedWarmup > 0
    /\ global_step > ClaimedWarmup
    /\ global_step < ClaimedTotal
    /\ factor > 0
    /\ factor < Scale

ScheduleStateOrdered ==
    /\ obj.train_iters_per_epoch = ClaimedIters
    /\ optim.warmup_steps = ClaimedWarmup
    /\ optim.total_steps = ClaimedTotal
    /\ 0 <= optim.warmup_steps
    /\ optim.warmup_steps <= optim.total_steps

\* C9 as stated: whatever arguments the object was built with, the
\* warmup_steps and total_steps configure_optimizers computes satisfy
\* 0 <= warmup_steps <= total_steps.
C9_ScheduleStateAlways == st = "configured" => ScheduleStateOrdered

\* C9 amended: when num_samples >= 0, global_batch_size > 0 and
\* 0 <= warmup_epochs <= max_epochs, the warmup_steps and total_steps
\* configure_optimizers computes satisfy 0 <= warmup_steps <= total_steps.
C9_ScheduleState ==
    (/\ st = "configured"
     /\ ctor_args.num_samples >= 0
     /\ ClaimedGlobalBatch > 0
     /\ 0 <= ctor_args.warmup_epochs
     /\ ctor_args.warmup_epochs <= ctor_args.max_epochs)
        => ScheduleStateOrdered

C9_Witness ==
    /\ st = "configured"
    /\ ctor_args.gpus = 0
    /\ 0 < optim.warmup_steps
    /\ optim.warmup_steps < optim.total_steps

---------------------------------------------------------------------------
(* Claims about SyncFunction (specification SpecSync) *)

\* rows [q*B, (q+1)*B) of t, counted from 0
RowsOfRank(t, q) == SubSeq(t, q * B + 1, (q + 1) * B)

\* C1: whatever the world size and the local batches (all of B rows),
\* forward returns the same global batch on every worker, and its rows
\* [q*B, (q+1)*B) are the local batch of rank q, for every rank q.
C1_ForwardGathersInRankOrder ==
    \A r \in Ranks :
        pc[r] = "loss"
            => /\ Len(out_dist[r][1]) = W * B
               /\ \A q \in Ranks :
                     /\ Len(out[q][1]) = B
                     /\ RowsOfRank(out_dist[r][1], q) = out[q][1]
               /\ \A r2 \in Ranks :
                     pc[r2] = "loss" => out_dist[r2][1] = out_dist[r][1]

C1_Witness ==
    /\ W >= 2
    /\ B >= 2
    /\ \A r \in Ranks : pc[r] = "loss"
    /\ out[0][1] # out[1][1]
    /\ out_dist[1][1] = out[0][1] \o out[1][1]

RECURSIVE SumGiven(_, _)
SumGiven(j, q) == IF q < 0 THEN 0 ELSE given[q][1][j] + SumGiven(j, q - 1)

\* C2: backward on rank r returns rows [r*B, (r+1)*B) of the element-wise
\* sum of the gradients all workers were given, B being the batch size its
\* forward recorded; the slice has B rows and the grad_output of the caller
\* is left as it was given.
C2_BackwardReturnsOwnSlice ==
    \A r \in Ranks :
        pc[r] = "done"
            => /\ ctx[r][1] = B
               /\ Len(grad_ret[r][1]) = B
               /\ \A i \in 1..B :
                     grad_ret[r][1][i] = SumGiven(r * B + i, W - 1)
               /\ grad_output[r][1] = given[r][1]

C2_Witness ==
    /\ W = 2
    /\ B = 2
    /\ \A r \in Ranks : pc[r] = "done"
    /\ given[0][1] = <<1, 1, 1, 1>>
    /\ given[1][1] = <<0, 0, 1, 0>>
    /\ grad_ret[0][1] = <<1, 1>>
    /\ grad_ret[1][1] = <<2, 1>>

---------------------------------------------------------------------------
(* Claims about the step of a distributed run (specification SpecStep) *)

CollectiveSequence == <<"all_gather", "all_gather", "all_reduce", "all_reduce">>

IsPrefix(s, t) == Len(s) <= Len(t) /\ s = SubSeq(t, 1, Len(s))

\* worker r has called its c-th collective and the call has returned
ReturnedFrom(r, c) ==
    \/ Len(issued[r]) > c
    \/ Len(issued[r]) = c /\ pc[r] \notin {"fwd_wait", "bwd_wait"}

AllStarted == \A r \in Ranks : pc[r] \notin {"idle", "absent"}

AllDone == \A r \in Ranks : pc[r] = "done"

\* C10: in a distributed run every worker issues the same collectives in
\* the same order (two all-gathers, then two all-reduces); no call of a
\* collective returns before all W workers have made it; when some worker
\* never enters the step no worker completes it; when every worker starts
\* the step every worker eventually completes it, and once one worker has
\* completed it all of them do.
C10_StepCompletesForAllOrNone ==
    /\ [](dist_init =>
            \A r \in Ranks :
                /\ IsPrefix(issued[r], CollectiveSequence)
                /\ pc[r] = "done" => issued[r] = CollectiveSequence)
    /\ [](dist_init =>
            \A r \in Ranks : \A c \in 1..Len(CollectiveSequence) :
                ReturnedFrom(r, c) => \A q \in Ranks : Len(issued[q]) >= c)
    /\ []((dist_init /\ \E q \in Ranks : pc[q] = "absent")
             => \A r \in Ranks : pc[r] # "done")
    /\ ((dist_init /\ AllStarted) ~> AllDone)
    /\ ((dist_init /\ \E r \in Ranks : pc[r] = "done") ~> AllDone)

C10_Witness ==
    /\ dist_init
    /\ W >= 2
    /\ AllDone
    /\ \A r \in Ranks : issued[r] = CollectiveSequence

====
